---- MODULE Spec2Model ----
(***************************************************************************)
(* Conversation / message bookkeeping of the chat backend:                 *)
(*   backend/db_utils.py   get_or_create_conversation, save_message        *)
(*   backend/chat_service.py  ChatService                                  *)
(*   backend/api.py        the chat and conversation endpoints             *)
(*   DB/database.py        with_db_session, get_db_session                 *)
(*   DB/models.py          Conversation, Message                           *)
(*   model/ai_agents.py    ChatAgent                                       *)
(* Every request runs on its own worker with its own database session;    *)
(* the steps of concurrent requests interleave at statement boundaries.    *)
(***************************************************************************)
EXTENDS Integers, Sequences, FiniteSets, TLC

VARIABLES
    users,          \* Users table: user_id -> [is_deleted, last_login]
    otp_store,      \* auth.otp_store: email -> [otp, expiry]
    cleanup_thread, \* the thread running cleanup_expired_otps and its locals
    settings,       \* User_Settings table, indexed by setting_id (autoincrement)
    conversations,  \* Conversations table, indexed by conversation_id (autoincrement)
    messages,       \* Messages table, indexed by message_id (autoincrement, commit order)
    rowlock,        \* SELECT ... FOR UPDATE locks: conversation_id -> holding worker
    clock,          \* datetime.utcnow()
    proc            \* the call each worker is executing and its locals

vars == <<users, otp_store, cleanup_thread, settings, conversations, messages, rowlock, clock, proc>>

----------------------------------------------------------------------------
(* Bounds of the model *)

MaxConvs == 2              \* rows the Conversations table can hold
MaxClock == 2              \* readings of the clock

Procs   == {"w1", "w2"}    \* request workers; each serves one call
UserIds == 1..4            \* 1 and 2 are live users, 3 is soft-deleted, 4 names no user
Callers == UserIds \ {2}   \* user 2 owns rows and sends no request
ConvIds == 1..MaxConvs

NoId   == 0                \* Python None where an id is expected (`if conversation_id:`)
NoProc == "NoProc"

----------------------------------------------------------------------------
(* Text helpers: Python's str.strip() and str.startswith() on strings *)

IsSpace(ch) == ch \in {" ", "\t", "\n"}

RECURSIVE LStrip(_)
LStrip(s) ==
    IF Len(s) = 0 THEN s
    ELSE IF IsSpace(SubSeq(s, 1, 1)) THEN LStrip(SubSeq(s, 2, Len(s)))
    ELSE s

RECURSIVE RStrip(_)
RStrip(s) ==
    IF Len(s) = 0 THEN s
    ELSE IF IsSpace(SubSeq(s, Len(s), Len(s))) THEN RStrip(SubSeq(s, 1, Len(s) - 1))
    ELSE s

Strip(s) == RStrip(LStrip(s))

StartsWith(s, prefix) ==
    Len(s) >= Len(prefix) /\ SubSeq(s, 1, Len(prefix)) = prefix

(* variant that tests the length only, without strip() *)
IsEmptyText_NoStrip(t) == Len(t) = 0

(* `not text or text.strip() == ''` *)
IsEmptyText(t) == Len(t) = 0 \/ Len(Strip(t)) = 0

LowerCase == "abcdefghijklmnopqrstuvwxyz"
UpperCase == "ABCDEFGHIJKLMNOPQRSTUVWXYZ"

UpperChar(ch) ==
    IF \E i \in 1..Len(LowerCase) : SubSeq(LowerCase, i, i) = ch
    THEN LET i == CHOOSE i \in 1..Len(LowerCase) : SubSeq(LowerCase, i, i) = ch
         IN SubSeq(UpperCase, i, i)
    ELSE ch

(* str.upper() *)
RECURSIVE Upper(_)
Upper(s) ==
    IF Len(s) = 0 THEN s ELSE UpperChar(SubSeq(s, 1, 1)) \o Upper(SubSeq(s, 2, Len(s)))

----------------------------------------------------------------------------
(* Rows *)

ACTIVE   == "active"
ARCHIVED == "archived"

ConversationRow(u, st, del, la) ==
    [user_id |-> u, status |-> st, is_deleted |-> del, last_activity |-> la]

MessageRow(c, u, r, t, ts) ==
    [conversation_id |-> c, user_id |-> u, role |-> r, message_text |-> t, timestamp |-> ts]

Idle ==
    [pc |-> "idle", op |-> "none", user_id |-> NoId, conversation_id |-> NoId,
     conv |-> NoId, code |-> 0, exc |-> "", writes |-> 0,
     role |-> "none", text |-> "", ts |-> 0, saved |-> 0,
     outcome |-> "none", history |-> <<>>, response |-> "",
     setting |-> NoId, prompt |-> "",
     retry_count |-> 0, delay |-> 0, slept |-> 0, calls |-> 0,
     email |-> NoId, otp |-> "", stored_data |-> [otp |-> "", expiry |-> 0],
     message |-> "", detail |-> "", access_token |-> FALSE,
     arg_user_id |-> NoId]

----------------------------------------------------------------------------
(* db_utils.validate_user_exists: the user row exists and is not deleted;   *)
(* otherwise HTTPException(404).                                            *)

UserFound(uid) == uid \in DOMAIN users /\ ~users[uid].is_deleted

validate_user_exists(uid) == IF UserFound(uid) THEN 200 ELSE 404

(* get_or_create_conversation wraps its body in try/except: the            *)
(* HTTPException raised by validate_user_exists is no SQLAlchemyError, so  *)
(* `except Exception` catches it, rolls back and raises HTTPException(500).*)
GetOrCreateErrorCode(raised) == 500

(* variant of the query without the filter on the owner *)
ConversationById_AnyOwner(tbl, cid, uid) ==
    {c \in DOMAIN tbl : c = cid /\ ~tbl[c].is_deleted}

(* the query of lines 126-130 *)
ConversationById(tbl, cid, uid) ==
    {c \in DOMAIN tbl : c = cid /\ tbl[c].user_id = uid /\ ~tbl[c].is_deleted}

(* the filter of lines 141-145 *)
ActiveConversations(tbl, uid) ==
    {c \in DOMAIN tbl :
        tbl[c].user_id = uid /\ tbl[c].status = ACTIVE /\ ~tbl[c].is_deleted}

(* variant that orders by ascending last_activity *)
MostRecentlyActive_Oldest(tbl, uid) ==
    {c \in DOMAIN tbl :
        /\ tbl[c].user_id = uid /\ tbl[c].status = "active" /\ ~tbl[c].is_deleted
        /\ \A d \in DOMAIN tbl :
              (tbl[d].user_id = uid /\ tbl[d].status = "active" /\ ~tbl[d].is_deleted)
              => tbl[c].last_activity <= tbl[d].last_activity}

(* .order_by(desc(last_activity)).first(): a row with the greatest        *)
(* last_activity; the database picks among equal ones.                     *)
MostRecentlyActive(tbl, uid) ==
    LET A == ActiveConversations(tbl, uid)
    IN {c \in A : \A d \in A : tbl[d].last_activity <= tbl[c].last_activity}

(* variant of a query without with_for_update(): it never waits *)
RowFree_NoLock(c, p) == TRUE

(* with_for_update() (line 278) and UPDATE wait while another session      *)
(* holds the row                                                           *)
RowFree(c, p) == rowlock[c] \in {NoProc, p}

----------------------------------------------------------------------------
UsersTable == [u \in 1..3 |-> [is_deleted |-> (u = 3), last_login |-> 0]]

(* Rows that requests leave behind: active, archived, or soft-deleted      *)
(* (soft_delete archives as well).                                         *)
InitRows(now) ==
    {ConversationRow(u, ACTIVE, FALSE, la) : u \in {1, 2}, la \in 1..now}
    \cup {ConversationRow(u, ARCHIVED, del, 1) : u \in {1, 2}, del \in BOOLEAN}

RECURSIVE TablesUpTo(_, _)
TablesUpTo(n, now) ==
    IF n = 0 THEN {<<>>}
    ELSE LET T == TablesUpTo(n - 1, now)
         IN T \cup {Append(t, r) : t \in {x \in T : Len(x) = n - 1}, r \in InitRows(now)}

OneActivePerUser(tbl) ==
    \A u \in UserIds : Cardinality(ActiveConversations(tbl, u)) <= 1

(* the tables sequential requests leave behind, with room for a new row *)
InitConversations == {t \in TablesUpTo(MaxConvs - 1, 1) : OneActivePerUser(t)}

InitOther ==
    /\ users = UsersTable
    /\ otp_store = <<>>
    /\ cleanup_thread = [pc |-> "sleep", current_time |-> 0]
    /\ settings = <<>>
    /\ messages = <<>>
    /\ rowlock = [c \in ConvIds |-> NoProc]
    /\ proc = [p \in Procs |-> Idle]

Init ==
    /\ InitOther
    /\ conversations \in InitConversations
    /\ clock = 1

CanStart(p) == proc[p].pc = "idle"

Finish(p, rec) ==
    proc' = [proc EXCEPT ![p] = [rec EXCEPT !.pc = "done"]]

(* where the caller of get_or_create_conversation goes on with the result: *)
(* ChatService.__init__ (line 17) continues with the settings (line 18),   *)
(* every other caller returns.                                             *)
Resolved(p, rec) ==
    proc' = [proc EXCEPT ![p] =
                [rec EXCEPT !.pc = IF rec.op = "chat" THEN "settings" ELSE "done"]]

(* get_or_create_conversation, lines 120-146: validate the user, look the  *)
(* conversation id up, then look for the active conversation.  `rec` is    *)
(* the worker's record on entry.                                           *)
ResolveQuery(p, rec) ==
    LET uid == rec.user_id
        cid == rec.conversation_id
        r0  == [rec EXCEPT !.writes = 0]
    IN
    IF validate_user_exists(uid) # 200 THEN
        /\ Finish(p, [r0 EXCEPT !.code = GetOrCreateErrorCode(404)])
        /\ UNCHANGED <<conversations>>
    ELSE IF cid # NoId /\ ConversationById(conversations, cid, uid) # {} THEN
        \* lines 132-136: bump last_activity, commit, return
        /\ RowFree(cid, p)
        /\ conversations' = [conversations EXCEPT ![cid].last_activity = clock]
        /\ Resolved(p, [r0 EXCEPT !.code = 200, !.conv = cid, !.writes = 1])
    ELSE IF MostRecentlyActive(conversations, uid) # {} THEN
        \* line 160: the active conversation is returned as it is
        /\ \E c \in MostRecentlyActive(conversations, uid) :
              Resolved(p, [r0 EXCEPT !.code = 200, !.conv = c])
        /\ UNCHANGED <<conversations>>
    ELSE
        /\ proc' = [proc EXCEPT ![p] = [r0 EXCEPT !.pc = "insert"]]
        /\ UNCHANGED <<conversations>>

(* get_or_create_conversation(session, user_id, conversation_id) *)
Resolve_Query(p, uid, cid) ==
    /\ CanStart(p)
    /\ ResolveQuery(p, [Idle EXCEPT !.op = "resolve",     !.user_id = uid, !.conversation_id = cid])
    /\ UNCHANGED <<users, otp_store, cleanup_thread, settings, messages, rowlock, clock>>

(* lines 147-158: no active conversation was found: insert one and commit *)
Resolve_Insert(p) ==
    /\ proc[p].pc = "insert"
    /\ Len(conversations) < MaxConvs
    /\ LET new == ConversationRow(proc[p].user_id, ACTIVE, FALSE, clock)
           cid == Len(conversations) + 1
       IN /\ conversations' = Append(conversations, new)
          /\ Resolved(p, [proc[p] EXCEPT !.code = 200, !.conv = cid, !.writes = 1])
    /\ UNCHANGED <<users, otp_store, cleanup_thread, settings, messages, rowlock, clock>>

----------------------------------------------------------------------------
(* with_db_session (DB/database.py 245-258): the wrapped function is       *)
(* called with keywords only; user_id is the caller's first positional     *)
(* argument (None when there is none), whatever user_id keyword was given. *)
BoundUserId(args) == IF Len(args) > 0 THEN args[1] ELSE NoId

(* a Session object standing where a user id is expected *)
SessionArg == -1

(* ChatService(user_id), the first statement of every chat endpoint        *)
(* (api.py 350, 360, 369, 378, 390, 441): __init__ line 17.                *)
ChatInit_Resolve(p, uid) ==
    /\ CanStart(p)
    /\ ResolveQuery(p, [Idle EXCEPT !.op = "chat", !.user_id = uid])
    /\ UNCHANGED <<users, otp_store, cleanup_thread, settings, messages, rowlock, clock>>

(* __init__ line 18: get_user_settings(self.db, self.user_id) goes through *)
(* with_db_session, which binds user_id to the first positional argument,  *)
(* the session.  validate_user_exists finds no such user (404), or the     *)
(* driver rejects the parameter (SQLAlchemyError, turned into 500 at       *)
(* db_utils.py 106-111).  The constructor raises either way.               *)
ChatInit_Settings(p) ==
    /\ proc[p].pc = "settings"
    /\ LET uid == BoundUserId(<<SessionArg, proc[p].user_id>>)
       IN IF validate_user_exists(uid) = 200
          THEN Finish(p, [proc[p] EXCEPT !.code = 200])
          ELSE \E code \in {validate_user_exists(uid), 500} :
                  Finish(p, [proc[p] EXCEPT !.code = code])
    /\ UNCHANGED <<users, otp_store, cleanup_thread, settings, conversations, messages, rowlock, clock>>

(* variant in which every conversation passes for the caller's own *)
OwnedBy_Anyone(uid) == DOMAIN conversations

(* the conversations a ChatService of user uid can hold in                 *)
(* self.conversation: one returned by get_or_create_conversation or        *)
(* picked by switch_conversation (chat_service.py 184-197); the filter on  *)
(* conversation_id and user_id of api.py 409-416 is the same               *)
OwnedBy(uid) == {c \in DOMAIN conversations : conversations[c].user_id = uid}

(* ChatService.create_new_conversation, lines 167-168: archive the         *)
(* service's current conversation and commit.  Every UPDATE of a           *)
(* conversation that does not set last_activity gets it from               *)
(* onupdate=datetime.utcnow (DB/models.py 151).                            *)
New_Archive(p, uid, c) ==
    /\ CanStart(p)
    /\ UserFound(uid)
    /\ c \in OwnedBy(uid)
    /\ RowFree(c, p)
    /\ conversations' = [conversations EXCEPT ![c].status = ARCHIVED,
                                              ![c].last_activity = clock]
    /\ proc' = [proc EXCEPT ![p] =
                   [Idle EXCEPT !.pc = "newresolve", !.op = "new", !.user_id = uid]]
    /\ UNCHANGED <<users, otp_store, cleanup_thread, settings, messages, rowlock, clock>>

(* create_new_conversation, line 171 *)
New_Resolve(p) ==
    /\ proc[p].pc = "newresolve"
    /\ ResolveQuery(p, proc[p])
    /\ UNCHANGED <<users, otp_store, cleanup_thread, settings, messages, rowlock, clock>>

(* DELETE /conversations/{conversation_id} (api.py 402-427) *)
Archive(p, uid, cid) ==
    /\ CanStart(p)
    /\ LET rec == [Idle EXCEPT !.op = "archive", !.user_id = uid,
                               !.conversation_id = cid]
       IN IF cid \in OwnedBy(uid)
          THEN /\ RowFree(cid, p)
               /\ conversations' = [conversations EXCEPT ![cid].status = ARCHIVED,
                                                      ![cid].last_activity = clock]
               /\ Finish(p, [rec EXCEPT !.code = 200])
          ELSE /\ Finish(p, [rec EXCEPT !.code = 404])
               /\ UNCHANGED conversations
    /\ UNCHANGED <<users, otp_store, cleanup_thread, settings, messages, rowlock, clock>>

(* ChatService.switch_conversation(conversation_id) of a service of user   *)
(* uid (chat_service.py 182-216) and POST /conversations/{id}/switch       *)
(* (api.py 388-396): the conversation becomes the service's current one    *)
(* and its messages are loaded into the agent's history; False is          *)
(* answered with 404                                                       *)
Switch(p, uid, cid) ==
    /\ CanStart(p)
    /\ UserFound(uid)
    /\ LET rec == [Idle EXCEPT !.op = "switch", !.user_id = uid,
                               !.conversation_id = cid]
           Of(m) == m.conversation_id = cid
       IN IF cid \in OwnedBy(uid)
          THEN Finish(p, [rec EXCEPT !.code = 200, !.conv = cid,
                                     !.history = SelectSeq(messages, Of)])
          ELSE Finish(p, [rec EXCEPT !.code = 404])
    /\ UNCHANGED <<users, otp_store, cleanup_thread, settings, conversations, messages, rowlock, clock>>

(* variant that sets the flag and leaves the status *)
SoftDelete_FlagOnly(c) ==
    /\ c \in DOMAIN conversations
    /\ ~conversations[c].is_deleted
    /\ rowlock[c] = NoProc
    /\ conversations' = [conversations EXCEPT ![c].is_deleted = TRUE,
                                              ![c].last_activity = clock]
    /\ UNCHANGED <<users, otp_store, cleanup_thread, settings, messages, rowlock, clock, proc>>

(* Conversation.soft_delete (DB/models.py 163-169), committed *)
SoftDelete(c) ==
    /\ c \in DOMAIN conversations
    /\ ~conversations[c].is_deleted
    /\ rowlock[c] = NoProc
    /\ conversations' = [conversations EXCEPT ![c].is_deleted = TRUE,
                                              ![c].status = ARCHIVED,
                                              ![c].last_activity = clock]
    /\ UNCHANGED <<users, otp_store, cleanup_thread, settings, messages, rowlock, clock, proc>>

Tick ==
    /\ clock < MaxClock
    /\ clock' = clock + 1
    /\ UNCHANGED <<users, otp_store, cleanup_thread, settings, conversations, messages, rowlock, proc>>

----------------------------------------------------------------------------
(* The conversation resolver under concurrent requests *)

NextConv ==
    \/ \E p \in Procs, u \in Callers, c \in ConvIds \cup {NoId} : Resolve_Query(p, u, c)
    \/ \E p \in Procs, u \in Callers : ChatInit_Resolve(p, u)
    \/ \E p \in Procs : ChatInit_Settings(p)
    \/ \E p \in Procs, u \in Callers, c \in ConvIds : New_Archive(p, u, c)
    \/ \E p \in Procs : New_Resolve(p)
    \/ \E p \in Procs : Resolve_Insert(p)
    \/ \E p \in Procs, u \in Callers, c \in ConvIds : Archive(p, u, c)
    \/ \E c \in ConvIds : SoftDelete(c)
    \/ Tick

SpecConv == Init /\ [][NextConv]_vars

(* every operation that writes or reads the status of a conversation *)
NextStatus ==
    \/ NextConv
    \/ \E p \in Procs, u \in Callers, c \in ConvIds : Switch(p, u, c)

SpecStatus == Init /\ [][NextStatus]_vars

(* get_or_create_conversation as a function of the tables it finds: any    *)
(* table requests can leave behind, those of racing requests included,     *)
(* read at the latest clock reading.                                       *)
InitResolve ==
    /\ InitOther
    /\ conversations \in TablesUpTo(MaxConvs, MaxClock)
    /\ clock = MaxClock

NextResolve ==
    \/ \E p \in Procs, u \in Callers, c \in ConvIds \cup {NoId} : Resolve_Query(p, u, c)
    \/ \E p \in Procs : Resolve_Insert(p)
    \/ \E c \in ConvIds : SoftDelete(c)

SpecResolve == InitResolve /\ [][NextResolve]_vars

----------------------------------------------------------------------------
(* The message ledger: save_message behind with_db_session *)

(* the names of the MessageRole enum (DB/models.py 22-25) *)
MessageRoleNames == {"USER", "ASSISTANT", "SYSTEM"}

(* the parameters of save_message (db_utils.py 250-259) and those without  *)
(* a default                                                               *)
SaveMessageParams ==
    {"session", "conversation_id", "user_id", "role", "message_text",
     "response_time_ms", "token_count", "model_used"}
SaveMessageRequired ==
    {"session", "conversation_id", "user_id", "role", "message_text"}

(* with_db_session, lines 250-255: the keywords the wrapped function gets: *)
(* the caller's keywords, with session and user_id set by the wrapper      *)
BoundKeywords(kw) == (kw \ {"session"}) \cup {"user_id", "session"}

(* the call of the wrapped function raises TypeError for a keyword the function does not     *)
(* have, or a parameter without default that is not given                  *)
CallRaisesTypeError(params, required, kw) ==
    \/ ~(BoundKeywords(kw) \subseteq params)
    \/ ~(required \subseteq BoundKeywords(kw))

(* the keywords of a call save_message([user_id,] conversation_id=...,     *)
(* role=..., message_text=...)                                             *)
DirectKeywords == {"conversation_id", "role", "message_text"}

(* the keywords ChatService.send_message passes (chat_service.py 57-63) *)
SendMessageKeywords == {"db", "conversation_id", "user_id", "role", "message_text"}

(* the query of lines 275-278, without the lock *)
LiveConversation(cid) ==
    cid \in DOMAIN conversations /\ ~conversations[cid].is_deleted

(* save_message up to the row lock (database.py 245-258, db_utils.py       *)
(* 261-282).  args: the caller's positional arguments; kw: its keywords.   *)
(* An exception that is neither ValueError nor SQLAlchemyError leaves      *)
(* save_message as it is; the request ends with 500.                       *)
SaveBegin(p, rec, args, kw) ==
    LET r0 == [rec EXCEPT !.user_id = BoundUserId(args)]
        cid == rec.conversation_id
    IN
    IF CallRaisesTypeError(SaveMessageParams, SaveMessageRequired, kw) THEN
        /\ Finish(p, [r0 EXCEPT !.code = 500, !.exc = "TypeError"])
        /\ UNCHANGED rowlock
    ELSE IF IsEmptyText(rec.text) THEN
        \* line 263-264, turned into 400 at 304-310
        /\ Finish(p, [r0 EXCEPT !.code = 400, !.exc = "HTTPException"])
        /\ UNCHANGED rowlock
    ELSE IF Upper(rec.role) \notin MessageRoleNames THEN
        \* lines 267-272
        /\ Finish(p, [r0 EXCEPT !.code = 400, !.exc = "HTTPException"])
        /\ UNCHANGED rowlock
    ELSE IF ~LiveConversation(cid) THEN
        \* lines 280-282: ValueError, turned into 400 at 304-310
        /\ Finish(p, [r0 EXCEPT !.code = 400, !.exc = "HTTPException"])
        /\ UNCHANGED rowlock
    ELSE
        \* .with_for_update(): wait for the row, then hold it
        /\ RowFree(cid, p)
        /\ rowlock' = [rowlock EXCEPT ![cid] = p]
        /\ proc' = [proc EXCEPT ![p] = [r0 EXCEPT !.pc = "stamp"]]

(* save_message(...) called with the arguments its parameters take:        *)
(* pos_user is the positional user id, NoId when none is given             *)
Save_Call(p, pos_user, cid, role, text) ==
    /\ CanStart(p)
    /\ SaveBegin(p, [Idle EXCEPT !.op = "save", !.conversation_id = cid,
                                 !.role = role, !.text = text,
                                 !.arg_user_id = pos_user],
                 IF pos_user = NoId THEN <<>> ELSE <<pos_user>>, DirectKeywords)
    /\ UNCHANGED <<users, otp_store, cleanup_thread, settings, conversations, messages, clock>>

(* lines 285-294: the Message object is built, timestamp=datetime.utcnow(); *)
(* Message.validate_message (DB/models.py 197-201) checks the text again   *)
Save_Stamp(p) ==
    /\ proc[p].pc = "stamp"
    /\ IF IsEmptyText(proc[p].text)
       THEN /\ Finish(p, [proc[p] EXCEPT !.code = 400, !.exc = "HTTPException"])
            /\ rowlock' = [rowlock EXCEPT ![proc[p].conversation_id] = NoProc]
       ELSE /\ proc' = [proc EXCEPT ![p] = [proc[p] EXCEPT !.pc = "commit", !.ts = clock]]
            /\ UNCHANGED rowlock
    /\ UNCHANGED <<users, otp_store, cleanup_thread, settings, conversations, messages, clock>>

(* lines 297-303: last_activity = datetime.utcnow(), add, commit; the      *)
(* commit releases the row                                                 *)
Save_Commit(p) ==
    /\ proc[p].pc = "commit"
    /\ LET cid == proc[p].conversation_id
       IN /\ messages' = Append(messages,
                 MessageRow(cid, proc[p].user_id, Upper(proc[p].role),
                            proc[p].text, proc[p].ts))
          /\ conversations' = [conversations EXCEPT ![cid].last_activity = clock]
          /\ rowlock' = [rowlock EXCEPT ![cid] = NoProc]
          /\ Finish(p, [proc[p] EXCEPT !.code = 200, !.saved = proc[p].saved + 1])
    /\ UNCHANGED <<users, otp_store, cleanup_thread, settings, clock>>

(* ChatService.send_message(message_text), lines 51-63, of a service of    *)
(* user uid whose current conversation is c: the user message is saved     *)
(* with the keywords of SendMessageKeywords and no positional argument     *)
Send_SaveUser(p, uid, c, text) ==
    /\ CanStart(p)
    /\ UserFound(uid)
    /\ c \in OwnedBy(uid)
    /\ SaveBegin(p, [Idle EXCEPT !.op = "send", !.conversation_id = c, !.conv = c,
                                 !.role = "user", !.text = text,
                                 !.arg_user_id = uid],
                 <<>>, SendMessageKeywords)
    /\ UNCHANGED <<users, otp_store, cleanup_thread, settings, conversations, messages, clock>>

(* the keywords of send_message's two calls (chat_service.py 57-63 and     *)
(* 87-94) that save_message has                                            *)
KeywordCallKeywords == SendMessageKeywords \ {"db"}

(* save_message(conversation_id=..., user_id=..., role=...,                *)
(* message_text=...): the user id is given by keyword, as send_message     *)
(* gives it, and there is no positional argument                           *)
Save_CallKeyword(p, kw_user, cid, role, text) ==
    /\ CanStart(p)
    /\ SaveBegin(p, [Idle EXCEPT !.op = "save_kw", !.conversation_id = cid,
                                 !.role = role, !.text = text,
                                 !.arg_user_id = kw_user],
                 <<>>, KeywordCallKeywords)
    /\ UNCHANGED <<users, otp_store, cleanup_thread, settings, conversations, messages, clock>>

(* the user reference each of the two calls of a chat turn of user 1 gives *)
TurnCalls == {<<"user", 1>>, <<"assistant", NoId>>}

NextUserRef ==
    \/ \E p \in Procs, c \in ConvIds, rc \in TurnCalls :
          Save_CallKeyword(p, rc[2], c, rc[1], "hi")
    \/ \E p \in Procs, c \in ConvIds, rc \in TurnCalls :
          Save_Call(p, rc[2], c, rc[1], "hi")
    \/ \E p \in Procs : Save_Stamp(p)
    \/ \E p \in Procs : Save_Commit(p)
    \/ \E p \in Procs, c \in ConvIds : Send_SaveUser(p, 1, c, "hi")
    \/ Tick

SpecUserRef == Init /\ [][NextUserRef]_vars

Roles == {"user", "moderator"}
Texts == {"", " ", "hi"}

NextLedger ==
    \/ \E p \in Procs, u \in {NoId, 1}, c \in ConvIds, r \in Roles, t \in Texts :
          Save_Call(p, u, c, r, t)
    \/ \E p \in Procs : Save_Stamp(p)
    \/ \E p \in Procs : Save_Commit(p)
    \/ \E p \in Procs, u \in Callers, c \in ConvIds, t \in Texts : Send_SaveUser(p, u, c, t)
    \/ \E c \in ConvIds : SoftDelete(c)
    \/ Tick

SpecLedger == Init /\ [][NextLedger]_vars

(* chat requests as the endpoints make them: ChatService(user_id), then    *)
(* send_message up to its first save_message call, which raises            *)
NextTurn ==
    \/ \E p \in Procs, u \in Callers : ChatInit_Resolve(p, u)
    \/ \E p \in Procs : Resolve_Insert(p)
    \/ \E p \in Procs : ChatInit_Settings(p)
    \/ \E p \in Procs, u \in Callers, c \in ConvIds, t \in Texts : Send_SaveUser(p, u, c, t)
    \/ Tick

SpecTurn == Init /\ [][NextTurn]_vars

(* conversations of users 1 and 2, messages saved in them, and the         *)
(* requests of the callers on them                                         *)
InitOwner ==
    /\ InitOther
    /\ conversations \in {t \in TablesUpTo(MaxConvs, 1) : OneActivePerUser(t)}
    /\ clock = 1

NextOwner ==
    \/ \E p \in Procs, u \in Callers, c \in ConvIds : Archive(p, u, c)
    \/ \E p \in Procs, u \in Callers, c \in ConvIds : Switch(p, u, c)
    \/ \E p \in Procs, u \in Callers, c \in ConvIds : New_Archive(p, u, c)
    \/ \E p \in Procs : New_Resolve(p)
    \/ \E p \in Procs : Resolve_Insert(p)
    \/ \E p \in Procs, u \in Callers, c \in ConvIds \cup {NoId} : Resolve_Query(p, u, c)
    \/ \E p \in Procs, c \in ConvIds : Save_Call(p, 2, c, "user", "hi")
    \/ \E p \in Procs : Save_Stamp(p)
    \/ \E p \in Procs : Save_Commit(p)
    \/ \E p \in Procs, u \in Callers, c \in ConvIds : Send_SaveUser(p, u, c, "hi")

SpecOwner == InitOwner /\ [][NextOwner]_vars

----------------------------------------------------------------------------
(* The model gateway: ChatAgent and the reply filter of send_message *)

(* backend/config.py line 13 *)
OLLAMA_REMOTE_URL == "http://localhost:11434/api/generate"

(* chat_service.py lines 78 and 81 *)
FallbackConnecting ==
    "I'm sorry, I'm having trouble connecting to my knowledge base right now. Please try again later."
FallbackProcessing ==
    "I'm sorry, I encountered an error while processing your request. Please try again later."

(* what requests.post and response.json() can do, as ChatAgent._call_ollama *)
(* tells them apart: kind, and the text of the exception or of the body    *)
FailureKinds == {"connection_error", "request_error", "json_error", "no_response_field"}
GatewayOutcomes ==
    {[kind |-> "response", body |-> t] : t \in {"", " ", "Hello", "Error 404 explained"}}
    \cup {[kind |-> k, body |-> "refused"] : k \in FailureKinds \cup {"other_exception"}}

(* ChatAgent._call_ollama, lines 47-86: the value it returns *)
call_ollama(o) ==
    CASE o.kind = "response"          -> o.body
      [] o.kind = "no_response_field" -> "No 'response' field in Ollama API response: " \o o.body
      [] o.kind = "json_error"        -> "Error decoding JSON from response: " \o o.body
      [] o.kind = "connection_error"  ->
             "Failed to connect to Ollama API at " \o OLLAMA_REMOTE_URL \o ": " \o o.body
      [] o.kind = "request_error"     -> "Error calling Ollama API: " \o o.body
      [] OTHER                        -> "Unexpected error in Ollama API call: " \o o.body

HistoryEntry(role, content) == [role |-> role, content |-> content]

(* ai_agents.py lines 30-32 *)
system_prompt ==
    "You are a helpful and knowledgeable AI assistant.\n        Provide clear, accurate, and well-structured responses.\n        If you're unsure about something, admit it."

(* payment_utils.check_user_subscription, details.context_length *)
ContextLength == 20

EndsWith(s, suffix) ==
    Len(s) >= Len(suffix) /\ SubSeq(s, Len(s) - Len(suffix) + 1, Len(s)) = suffix

(* "\n".join(lines) *)
RECURSIVE Join(_)
Join(lines) ==
    IF Len(lines) = 0 THEN ""
    ELSE IF Len(lines) = 1 THEN lines[1]
    ELSE lines[1] \o "\n" \o Join(Tail(lines))

(* seq[-n:] *)
LastN(seq, n) ==
    IF Len(seq) <= n THEN seq ELSE SubSeq(seq, Len(seq) - n + 1, Len(seq))

(* chat(), lines 98-101 *)
ContextLine(msg) ==
    (IF msg.role = "user" THEN "User: " ELSE "Assistant: ") \o msg.content

(* chat(), lines 97-107, and the prompt field of the payload (line 43) *)
BuildPrompt(history, message, context_length) ==
    LET window == LastN(history, context_length)
        joined == Join([i \in DOMAIN window |-> ContextLine(window[i])])
        checked == IF EndsWith(joined, message) THEN joined
                   ELSE joined \o "\nUser: " \o message
    IN system_prompt \o "\n\n" \o checked \o "\nAssistant:"

(* ChatAgent.chat, lines 88-127, on an agent whose history is `history`:   *)
(* the message goes to the history, the prompt is built, the gateway is    *)
(* called, a reply that is not empty goes to the history and is returned   *)
AgentChat(rec, history, message, o) ==
    LET response_content == call_ollama(o)
        h1 == Append(history, HistoryEntry("user", message))
    IN [rec EXCEPT !.pc = "filter", !.text = message,
                   !.outcome = o.kind,
                   !.prompt = BuildPrompt(h1, message, ContextLength),
                   !.history = IF Len(response_content) > 0
                               THEN Append(h1, HistoryEntry("assistant", response_content))
                               ELSE h1,
                   !.response = IF Len(response_content) > 0
                                THEN response_content
                                ELSE "No response received from Ollama"]

(* ChatAgent(model_name).chat(message): a new agent has an empty history   *)
(* (lines 25-33)                                                           *)
Agent_Chat(p, message, o) ==
    /\ CanStart(p)
    /\ proc' = [proc EXCEPT ![p] = AgentChat([Idle EXCEPT !.op = "agent"], <<>>, message, o)]
    /\ UNCHANGED <<users, otp_store, cleanup_thread, settings, conversations, messages, rowlock, clock>>

(* the gateway stage of a POST /chat turn (api.py 350-352, chat_service.py *)
(* 65-74) in conversation c: the request's ChatService is new, its agent   *)
(* was built by _create_agent (lines 40-46) and nothing has loaded the     *)
(* messages of c into agent.conversation_history                           *)
Send_Gateway(p, c, message, o) ==
    /\ CanStart(p)
    /\ LiveConversation(c)
    /\ proc' = [proc EXCEPT ![p] =
          AgentChat([Idle EXCEPT !.op = "turn", !.conversation_id = c, !.conv = c,
                                 !.user_id = conversations[c].user_id],
                    <<>>, message, o)]
    /\ UNCHANGED <<users, otp_store, cleanup_thread, settings, conversations, messages, rowlock, clock>>

(* chat_service.py lines 76-79 *)
ReplyFilter(response_text) ==
    IF Len(response_text) = 0 \/ StartsWith(response_text, "Error")
    THEN FallbackConnecting
    ELSE response_text

Send_Filter(p) ==
    /\ proc[p].pc = "filter"
    /\ Finish(p, [proc[p] EXCEPT !.response = ReplyFilter(proc[p].response)])
    /\ UNCHANGED <<users, otp_store, cleanup_thread, settings, conversations, messages, rowlock, clock>>

NextAgent ==
    \/ \E p \in Procs, m \in {"hi", "bye"}, o \in GatewayOutcomes : Agent_Chat(p, m, o)
    \/ \E p \in Procs : Send_Filter(p)

InitAgent == InitOther /\ conversations = <<>> /\ clock = 1

SpecAgent == InitAgent /\ [][NextAgent]_vars

(* a conversation of user 1 and the messages earlier turns left in it *)
EarlierMessages ==
    LET m1 == MessageRow(1, 1, "USER", "hi", 1)
        m2 == MessageRow(1, NoId, "ASSISTANT", "Hello", 1)
        m3 == MessageRow(1, 1, "USER", "bye", 1)
    IN {<<>>, <<m1>>, <<m1, m2>>, <<m1, m2, m3>>}

InitPrompt ==
    /\ users = UsersTable
    /\ otp_store = <<>>
    /\ cleanup_thread = [pc |-> "sleep", current_time |-> 0]
    /\ settings = <<>>
    /\ conversations = <<ConversationRow(1, ACTIVE, FALSE, 1)>>
    /\ messages \in EarlierMessages
    /\ rowlock = [c \in ConvIds |-> NoProc]
    /\ proc = [p \in Procs |-> Idle]
    /\ clock = 1

NextPrompt ==
    \/ \E p \in Procs, c \in ConvIds, m \in {"hi", "more"}, o \in GatewayOutcomes :
          Send_Gateway(p, c, m, o)
    \/ \E p \in Procs : Send_Filter(p)

SpecPrompt == InitPrompt /\ [][NextPrompt]_vars

----------------------------------------------------------------------------
(* User settings: the three read paths *)

(* model/ai_agents.py lines 17-20, in key order *)
available_models == <<"llama3.2:3b", "gemma3">>

(* a User_Settings row; notifications_enabled has the column default True  *)
(* (DB/models.py 129) where the constructor call does not give it          *)
SettingsRow(u, theme, model, notifications) ==
    [user_id |-> u, theme |-> theme, preferred_model |-> model,
     notifications_enabled |-> notifications]

(* the rows the queries of db_utils.py 89-91 and api.py 461 match *)
SettingsOf(uid) == {i \in DOMAIN settings : settings[i].user_id = uid}

(* db_utils.get_user_settings(user_id), lines 84-93, behind                *)
(* with_db_session: the user is validated (HTTPException(404) is not       *)
(* caught by `except SQLAlchemyError`), then the row is looked up          *)
GetSettings_Query(p, uid) ==
    /\ CanStart(p)
    /\ LET rec == [Idle EXCEPT !.op = "get_settings", !.user_id = BoundUserId(<<uid>>)]
       IN IF validate_user_exists(rec.user_id) # 200
          THEN Finish(p, [rec EXCEPT !.code = validate_user_exists(rec.user_id),
                                     !.exc = "HTTPException"])
          ELSE IF SettingsOf(rec.user_id) # {}
          THEN \E i \in SettingsOf(rec.user_id) :
                  Finish(p, [rec EXCEPT !.code = 200, !.setting = i])
          ELSE proc' = [proc EXCEPT ![p] = [rec EXCEPT !.pc = "settings_insert"]]
    /\ UNCHANGED <<users, otp_store, cleanup_thread, settings, conversations, messages, rowlock, clock>>

(* db_utils.py lines 93-105: no row was found: create the default row *)
GetSettings_Insert(p) ==
    /\ proc[p].pc = "settings_insert"
    /\ settings' = Append(settings,
                      SettingsRow(proc[p].user_id, "light", "llama3.2:3b", TRUE))
    /\ Finish(p, [proc[p] EXCEPT !.code = 200, !.setting = Len(settings) + 1])
    /\ UNCHANGED <<users, otp_store, cleanup_thread, conversations, messages, rowlock, clock>>

(* GET /settings (api.py 455-461): the row of the token's user is looked up *)
ApiSettings_Query(p, uid) ==
    /\ CanStart(p)
    /\ uid \in DOMAIN users
    /\ LET rec == [Idle EXCEPT !.op = "api_settings", !.user_id = uid]
       IN IF SettingsOf(uid) # {}
          THEN \E i \in SettingsOf(uid) :
                  Finish(p, [rec EXCEPT !.code = 200, !.setting = i])
          ELSE proc' = [proc EXCEPT ![p] = [rec EXCEPT !.pc = "api_settings_insert"]]
    /\ UNCHANGED <<users, otp_store, cleanup_thread, settings, conversations, messages, rowlock, clock>>

(* api.py lines 463-474 *)
ApiSettings_Insert(p) ==
    /\ proc[p].pc = "api_settings_insert"
    /\ settings' = Append(settings,
                      SettingsRow(proc[p].user_id, "light", available_models[1], TRUE))
    /\ Finish(p, [proc[p] EXCEPT !.code = 200, !.setting = Len(settings) + 1])
    /\ UNCHANGED <<users, otp_store, cleanup_thread, conversations, messages, rowlock, clock>>

(* PUT /settings (api.py 485-492) with a theme: the row of the token's     *)
(* user is looked up                                                       *)
UpdateSettings_Query(p, uid, theme) ==
    /\ CanStart(p)
    /\ uid \in DOMAIN users
    /\ LET rec == [Idle EXCEPT !.op = "update_settings", !.user_id = uid,
                               !.text = theme]
       IN IF SettingsOf(uid) # {}
          THEN \E i \in SettingsOf(uid) :
                  proc' = [proc EXCEPT ![p] =
                              [rec EXCEPT !.pc = "update_settings_commit", !.setting = i]]
          ELSE proc' = [proc EXCEPT ![p] =
                           [rec EXCEPT !.pc = "update_settings_commit"]]
    /\ UNCHANGED <<users, otp_store, cleanup_thread, settings, conversations, messages, rowlock, clock>>

(* api.py lines 494-523: the default row is created when none was found,   *)
(* the theme is set on the row, and the commit writes it                   *)
UpdateSettings_Commit(p) ==
    /\ proc[p].pc = "update_settings_commit"
    /\ LET i == proc[p].setting
       IN IF i = NoId
          THEN /\ settings' = Append(settings,
                     SettingsRow(proc[p].user_id, proc[p].text, available_models[1], TRUE))
               /\ Finish(p, [proc[p] EXCEPT !.code = 200, !.setting = Len(settings) + 1])
          ELSE /\ settings' = [settings EXCEPT ![i].theme = proc[p].text]
               /\ Finish(p, [proc[p] EXCEPT !.code = 200])
    /\ UNCHANGED <<users, otp_store, cleanup_thread, conversations, messages, rowlock, clock>>

(* the third path, ChatService._get_user_settings, is ChatInit_Settings,   *)
(* reached through ChatService.__init__                                    *)
NextSettings ==
    \/ \E p \in Procs, u \in Callers : GetSettings_Query(p, u)
    \/ \E p \in Procs : GetSettings_Insert(p)
    \/ \E p \in Procs, u \in Callers : ApiSettings_Query(p, u)
    \/ \E p \in Procs : ApiSettings_Insert(p)
    \/ \E p \in Procs, u \in Callers : UpdateSettings_Query(p, u, "dark")
    \/ \E p \in Procs : UpdateSettings_Commit(p)
    \/ \E p \in Procs, u \in Callers : ChatInit_Resolve(p, u)
    \/ \E p \in Procs : Resolve_Insert(p)
    \/ \E p \in Procs : ChatInit_Settings(p)

SpecSettings == Init /\ [][NextSettings]_vars

----------------------------------------------------------------------------
(* Deleting users *)

(* what is left at the id of a row that DELETE removed: autoincrement ids  *)
(* are not given out again, and no query matches the row                   *)
RemovedRow == [user_id |-> NoId, status |-> ARCHIVED, is_deleted |-> TRUE,
               last_activity |-> 0]

ConversationsOwned(tbl, uid) == {c \in DOMAIN tbl : tbl[c].user_id = uid}

(* the messages earlier save_message calls can have left: any author       *)
(* (a user id, or none for the assistant) in any conversation              *)
StoredMessages(tbl) ==
    {MessageRow(c, u, IF u = NoId THEN "ASSISTANT" ELSE "USER", "hi", 1) :
        c \in DOMAIN tbl, u \in {NoId, 1, 2}}

MessageTables(tbl) ==
    {<<>>} \cup {<<m>> : m \in StoredMessages(tbl)}
           \cup {<<m, n>> : m \in StoredMessages(tbl), n \in StoredMessages(tbl)}

(* delete_user_by_email(email, force=True) for the user with id uid, one   *)
(* transaction (DB/delete_user.py 14-62): lines 40-44 delete every message *)
(* of the user's conversations, lines 47-49 the conversations, line 53 the *)
(* user; db.delete(user) cascades over User.messages and User.settings     *)
(* (DB/models.py 71-91, cascade="all, delete-orphan"), which removes the   *)
(* messages the user wrote in any conversation and the settings rows       *)
DeleteUserByEmail(uid) ==
    /\ uid \in DOMAIN users
    /\ \A c \in ConversationsOwned(conversations, uid) : rowlock[c] = NoProc
    /\ LET own == ConversationsOwned(conversations, uid)
           Keep(m) == m.conversation_id \notin own /\ m.user_id # uid
           KeepSetting(r) == r.user_id # uid
       IN /\ messages' = SelectSeq(messages, Keep)
          /\ conversations' = [c \in DOMAIN conversations |->
                                  IF c \in own THEN RemovedRow ELSE conversations[c]]
          /\ settings' = SelectSeq(settings, KeepSetting)
          /\ users' = [u \in DOMAIN users \ {uid} |-> users[u]]
    /\ UNCHANGED <<otp_store, cleanup_thread, rowlock, clock, proc>>

(* user.role is a member of the UserRole enum (DB/models.py 13-16, 54), a  *)
(* plain enum.Enum: it is equal to no string                               *)
RoleEqualsString(role, str) == FALSE

(* DELETE /admin/users/delete-regular (api.py 540-555): the caller must    *)
(* have role "admin"; `user.role != "admin"` is true for every user, so    *)
(* the request ends with 403 before the bulk delete of lines 558-564       *)
AdminDeleteRegular(p, uid) ==
    /\ CanStart(p)
    /\ LET rec == [Idle EXCEPT !.op = "admin_delete", !.user_id = uid]
       IN IF uid \notin DOMAIN users \/ ~RoleEqualsString("ADMIN", "admin")
          THEN /\ Finish(p, [rec EXCEPT !.code = 403, !.exc = "HTTPException"])
               /\ UNCHANGED <<users, conversations, messages>>
          ELSE \* lines 558-564: bulk DELETE of the other users; the foreign
               \* keys remove their conversations and the messages in them
               \* (ON DELETE CASCADE) and clear the author of their other
               \* messages (ON DELETE SET NULL)
               LET KeptConv(c) == conversations[c].user_id = uid
                   Keep(m) == KeptConv(m.conversation_id)
                   kept == SelectSeq(messages, Keep)
               IN /\ Finish(p, [rec EXCEPT !.code = 200])
                  /\ users' = [u \in {uid} |-> users[u]]
                  /\ conversations' = [c \in DOMAIN conversations |->
                                          IF KeptConv(c) THEN conversations[c]
                                          ELSE RemovedRow]
                  /\ messages' = [i \in DOMAIN kept |->
                                     IF kept[i].user_id \in {uid, NoId} THEN kept[i]
                                     ELSE [kept[i] EXCEPT !.user_id = NoId]]
    /\ UNCHANGED <<otp_store, cleanup_thread, settings, rowlock, clock>>

InitDelete ==
    /\ users = UsersTable
    /\ otp_store = <<>>
    /\ cleanup_thread = [pc |-> "sleep", current_time |-> 0]
    /\ settings \in {<<>>, <<SettingsRow(1, "light", "llama3.2:3b", TRUE)>>}
    /\ conversations \in TablesUpTo(MaxConvs, 1)
    /\ messages \in MessageTables(conversations)
    /\ rowlock = [c \in ConvIds |-> NoProc]
    /\ proc = [p \in Procs |-> Idle]
    /\ clock = 1

NextDelete ==
    \/ \E u \in {1, 2} : DeleteUserByEmail(u)
    \/ \E p \in Procs, u \in {1, 2} : AdminDeleteRegular(p, u)

SpecDelete == InitDelete /\ [][NextDelete]_vars

----------------------------------------------------------------------------
(* Retries: retry_with_backoff around the wrapper of with_db_session *)

(* DB/database.py lines 30-32 and the default of backoff_factor (line 101) *)
MAX_RETRY_COUNT == 5
RETRY_INITIAL_DELAY_SECONDS == 1
MAX_RETRY_DELAY_SECONDS == 60
BackoffFactor == 2

(* variant that takes the larger of the two *)
Min_Larger(a, b) == IF a <= b THEN b ELSE a

Min(a, b) == IF a <= b THEN a ELSE b

(* the decorated functions of db_utils.py that catch SQLAlchemyError in    *)
(* their body and raise HTTPException(500) instead                         *)
UnitsOfWork == {"save_message", "get_user_settings", "get_conversation_messages"}

(* where a transient connection error (OperationalError) can strike one    *)
(* invocation: inside the body of the function, or in the session code     *)
(* around it (ScopedSession(), or the commit of get_db_session, line 217)  *)
Faults == {"none", "in_body", "around_body"}

(* the exception that leaves the wrapper (database.py 245-258) for a fault: *)
(* the body's `except exc.SQLAlchemyError` (e.g. db_utils.py 311-317)      *)
(* turns an error of the body into HTTPException                           *)
RaisedByWrapper(fault) ==
    CASE fault = "in_body"     -> "HTTPException"
      [] fault = "around_body" -> "OperationalError"
      [] OTHER                 -> ""

(* variant that retries after every exception *)
Retryable_All(e) == e # ""

(* retryable_exceptions = (exc.OperationalError, exc.DatabaseError) *)
Retryable(e) == e \in {"OperationalError", "DatabaseError"}

(* one pass of the loop of retry_with_backoff (lines 107-119) for the      *)
(* record rec: the function is invoked; a retryable exception leads to     *)
(* sleep unless retry_count >= max_retries; any other exception leaves     *)
RetryInvoke(p, rec, fault) ==
    LET r1 == [rec EXCEPT !.calls = rec.calls + 1, !.outcome = fault,
                          !.exc = RaisedByWrapper(fault)]
    IN IF r1.exc = "" THEN Finish(p, [r1 EXCEPT !.code = 200])
       ELSE IF Retryable(r1.exc) /\ rec.retry_count < MAX_RETRY_COUNT
       THEN proc' = [proc EXCEPT ![p] = [r1 EXCEPT !.pc = "sleep"]]
       ELSE Finish(p, [r1 EXCEPT !.code = 500])

(* a call of a decorated function: delay = initial_delay, retry_count = 0 *)
Unit_Call(p, f, fault) ==
    /\ CanStart(p)
    /\ RetryInvoke(p, [Idle EXCEPT !.op = f, !.delay = RETRY_INITIAL_DELAY_SECONDS],
                   fault)
    /\ UNCHANGED <<users, otp_store, cleanup_thread, settings, conversations, messages, rowlock, clock>>

(* lines 116-119: time.sleep(delay), then the delay grows *)
Unit_Sleep(p) ==
    /\ proc[p].pc = "sleep"
    /\ proc' = [proc EXCEPT ![p] =
          [proc[p] EXCEPT !.pc = "retry",
                          !.slept = proc[p].slept + proc[p].delay,
                          !.delay = Min(proc[p].delay * BackoffFactor,
                                        MAX_RETRY_DELAY_SECONDS),
                          !.retry_count = proc[p].retry_count + 1]]
    /\ UNCHANGED <<users, otp_store, cleanup_thread, settings, conversations, messages, rowlock, clock>>

(* the next pass of the loop *)
Unit_Retry(p, fault) ==
    /\ proc[p].pc = "retry"
    /\ RetryInvoke(p, proc[p], fault)
    /\ UNCHANGED <<users, otp_store, cleanup_thread, settings, conversations, messages, rowlock, clock>>

NextRetry ==
    \/ \E p \in Procs, f \in UnitsOfWork, x \in Faults : Unit_Call(p, f, x)
    \/ \E p \in Procs : Unit_Sleep(p)
    \/ \E p \in Procs, x \in Faults : Unit_Retry(p, x)

SpecRetry == InitAgent /\ [][NextRetry]_vars

(* the wrapper is a plain loop: once called, each worker goes on to its    *)
(* next statement                                                          *)
SpecRetryFair ==
    /\ SpecRetry
    /\ \A p \in Procs : WF_vars(Unit_Sleep(p))
    /\ \A p \in Procs : WF_vars(\E x \in Faults : Unit_Retry(p, x))

----------------------------------------------------------------------------
(* Units of work: get_db_session and with_db_session around save_message *)

(* variant of a rollback that keeps what the session had added *)
RolledBack_KeepsPending(rows, pending) == Append(rows, pending)

(* session.rollback() (database.py 219 and 257): the rows the session has  *)
(* added and not committed are dropped, the table is as it was             *)
RolledBack(rows, pending) == rows

(* a statement of the body after the row lock, or its commit (db_utils.py  *)
(* 285-300), raises SQLAlchemyError: the handler of lines 311-317 rolls    *)
(* back and raises HTTPException(500); the wrapper and get_db_session roll *)
(* back again, re-raise, and close the session, which gives the row back   *)
Save_Fail(p) ==
    /\ proc[p].pc \in {"stamp", "commit"}
    /\ LET cid == proc[p].conversation_id
           pending == MessageRow(cid, proc[p].user_id, Upper(proc[p].role),
                                 proc[p].text, proc[p].ts)
       IN /\ messages' = RolledBack(messages, pending)
          /\ rowlock' = [rowlock EXCEPT ![cid] = NoProc]
          /\ Finish(p, [proc[p] EXCEPT !.code = 500, !.exc = "HTTPException"])
    /\ UNCHANGED <<users, otp_store, cleanup_thread, settings, conversations, clock>>

NextUnit ==
    \/ \E p \in Procs, c \in ConvIds, t \in {"", "hi"} : Save_Call(p, 1, c, "user", t)
    \/ \E p \in Procs : Save_Stamp(p)
    \/ \E p \in Procs : Save_Commit(p)
    \/ \E p \in Procs : Save_Fail(p)
    \/ Tick

SpecUnit == Init /\ [][NextUnit]_vars

----------------------------------------------------------------------------
(* One-time passwords: backend/auth.py and POST /verify-otp *)

OTP_EXPIRY_SECONDS == 600

(* time.time() runs over MaxEpochs expiry periods *)
MaxEpochs == 2

(* the e-mail address of user u is modelled by u; generate_otp draws the   *)
(* code at random                                                          *)
Otps == {"111111", "222222"}

(* otp_store.get(email) returning None *)
NoData == [otp |-> "", expiry |-> 0]

OtpGet(email) == IF email \in DOMAIN otp_store THEN otp_store[email] ELSE NoData

(* otp_store[email] = {...} *)
OtpPut(email, data) ==
    [e \in DOMAIN otp_store \cup {email} |-> IF e = email THEN data ELSE otp_store[e]]

(* if email in otp_store: del otp_store[email] *)
OtpDel(email) == [e \in DOMAIN otp_store \ {email} |-> otp_store[e]]

(* variant of the sweep's test that also drops an entry at its expiry *)
Expired_Inclusive(v, current_time) == v.expiry <= current_time

(* cleanup_expired_otps, line 23: v['expiry'] < current_time *)
Expired(v, current_time) == v.expiry < current_time

(* verify_otp, line 159: time.time() > stored_data['expiry'] *)
PastExpiry(v, now) == now > v.expiry

(* the clock of time.time(), advanced by one expiry period *)
AdvanceTime ==
    /\ clock + OTP_EXPIRY_SECONDS <= OTP_EXPIRY_SECONDS * MaxEpochs + 1
    /\ clock' = clock + OTP_EXPIRY_SECONDS
    /\ UNCHANGED <<users, otp_store, cleanup_thread, settings, conversations, messages, rowlock, proc>>

(* send_otp_for_email (auth.py 121-148) for a registered address: the OTP  *)
(* is stored under otp_lock with its expiry, whether or not the mail goes  *)
(* out afterwards; for an unknown address nothing is stored                *)
SendOtp(email, otp) ==
    /\ email \in DOMAIN users
    /\ otp_store' = OtpPut(email, [otp |-> otp, expiry |-> clock + OTP_EXPIRY_SECONDS])
    /\ UNCHANGED <<users, cleanup_thread, settings, conversations, messages, rowlock, clock, proc>>

(* cleanup_expired_otps, lines 20-21: the thread wakes up and reads the time *)
Sweep_Wake ==
    /\ cleanup_thread.pc = "sleep"
    /\ cleanup_thread' = [pc |-> "lock", current_time |-> clock]
    /\ UNCHANGED <<users, otp_store, settings, conversations, messages, rowlock, clock, proc>>

(* lines 22-25: under otp_lock, the expired keys are collected and deleted *)
Sweep_Remove ==
    /\ cleanup_thread.pc = "lock"
    /\ LET expired_keys == {k \in DOMAIN otp_store :
                               Expired(otp_store[k], cleanup_thread.current_time)}
       IN otp_store' = [e \in DOMAIN otp_store \ expired_keys |-> otp_store[e]]
    /\ cleanup_thread' = [cleanup_thread EXCEPT !.pc = "sleep"]
    /\ UNCHANGED <<users, settings, conversations, messages, rowlock, clock, proc>>

(* str(e) of the HTTPException raised at api.py line 221: Starlette gives   *)
(* "<status>: <detail>" where it defines __str__, and the empty string in  *)
(* the releases that do not; the repository pins no release                *)
HTTPExceptionStr(status, detail) == {"", status \o ": " \o detail}

(* verify_otp_and_login (api.py 214-245) after verify_otp returned a       *)
(* failure: HTTPException(401, message) is raised inside the try block and *)
(* caught by `except Exception` (line 239), which raises                   *)
(* HTTPException(500, "Error verifying OTP: " + str(e))                    *)
VerifyFailed(p, rec, message) ==
    \E text \in HTTPExceptionStr("401", message) :
        Finish(p, [rec EXCEPT !.message = message,
                              !.code = 500, !.exc = "HTTPException",
                              !.detail = "Error verifying OTP: " \o text])

(* verify_otp, lines 153-155: the stored data is read under otp_lock *)
Verify_Get(p, email, otp) ==
    /\ CanStart(p)
    /\ proc' = [proc EXCEPT ![p] =
                  [Idle EXCEPT !.pc = "check", !.op = "verify", !.email = email,
                               !.otp = otp, !.stored_data = OtpGet(email)]]
    /\ UNCHANGED <<users, otp_store, cleanup_thread, settings, conversations, messages, rowlock, clock>>

(* verify_otp, lines 157-172: nothing stored, expired (the entry is        *)
(* deleted), wrong code, or valid (the entry is deleted)                   *)
Verify_Check(p) ==
    /\ proc[p].pc = "check"
    /\ LET rec == proc[p]
           stored_data == rec.stored_data
       IN IF stored_data = NoData
          THEN /\ VerifyFailed(p, rec, "OTP expired or not found")
               /\ UNCHANGED otp_store
          ELSE IF PastExpiry(stored_data, clock)
          THEN /\ otp_store' = OtpDel(rec.email)
               /\ VerifyFailed(p, rec, "OTP expired")
          ELSE IF rec.otp # stored_data.otp
          THEN /\ VerifyFailed(p, rec, "Invalid OTP")
               /\ UNCHANGED otp_store
          ELSE /\ otp_store' = OtpDel(rec.email)
               /\ proc' = [proc EXCEPT ![p].pc = "login"]
    /\ UNCHANGED <<users, cleanup_thread, settings, conversations, messages, rowlock, clock>>

(* verify_otp, lines 174-204, and api.py 225-237: the user is looked up by *)
(* e-mail, last_login is set and committed, the access token is issued     *)
Verify_Login(p) ==
    /\ proc[p].pc = "login"
    /\ LET rec == proc[p]
       IN IF rec.email \notin DOMAIN users
          THEN /\ VerifyFailed(p, rec, "User not found")
               /\ UNCHANGED users
          ELSE /\ users' = [users EXCEPT ![rec.email].last_login = clock]
               /\ Finish(p, [rec EXCEPT !.message = "OTP verified successfully",
                                        !.code = 200, !.access_token = TRUE,
                                        !.user_id = rec.email])
    /\ UNCHANGED <<otp_store, cleanup_thread, settings, conversations, messages, rowlock, clock>>

NextOtp ==
    \/ \E otp \in Otps : SendOtp(1, otp)
    \/ \E p \in Procs, email \in {1, 2}, otp \in Otps : Verify_Get(p, email, otp)
    \/ \E p \in Procs : Verify_Check(p)
    \/ \E p \in Procs : Verify_Login(p)
    \/ Sweep_Wake
    \/ Sweep_Remove
    \/ AdvanceTime

SpecOtp == InitAgent /\ [][NextOtp]_vars

(* the store after one POST /login for address 1, and the requests that    *)
(* follow while no other OTP is issued                                     *)
InitOtpIssued ==
    \E otp \in Otps :
        /\ users = UsersTable
        /\ otp_store = [e \in {1} |-> [otp |-> otp, expiry |-> 1 + OTP_EXPIRY_SECONDS]]
        /\ cleanup_thread = [pc |-> "sleep", current_time |-> 0]
        /\ settings = <<>>
        /\ conversations = <<>>
        /\ messages = <<>>
        /\ rowlock = [c \in ConvIds |-> NoProc]
        /\ proc = [p \in Procs |-> Idle]
        /\ clock = 1

NextOtpIssued ==
    \/ \E p \in Procs, email \in {1, 2}, otp \in Otps : Verify_Get(p, email, otp)
    \/ \E p \in Procs : Verify_Check(p)
    \/ \E p \in Procs : Verify_Login(p)
    \/ Sweep_Wake
    \/ Sweep_Remove
    \/ AdvanceTime

SpecOtpIssued == InitOtpIssued /\ [][NextOtpIssued]_vars

(* POST /login (api.py 201-211) around send_otp_for_email (auth.py         *)
(* 121-148): an unknown address is reported at once; otherwise the OTP is  *)
(* stored (lines 134-139) and then mailed (142); email_sent is what        *)
(* send_otp_email returns.  A failure is answered with 400.                *)
Login_RequestOtp(p, email, otp, email_sent) ==
    /\ CanStart(p)
    /\ LET rec == [Idle EXCEPT !.op = "login", !.email = email, !.otp = otp]
       IN IF email \notin DOMAIN users
          THEN /\ UNCHANGED otp_store
               /\ Finish(p, [rec EXCEPT !.code = 400, !.exc = "HTTPException",
                                        !.message = "Email not registered"])
          ELSE /\ otp_store' = OtpPut(email, [otp |-> otp,
                                              expiry |-> clock + OTP_EXPIRY_SECONDS])
               /\ IF email_sent
                  THEN Finish(p, [rec EXCEPT !.code = 200,
                                             !.message = "OTP sent successfully"])
                  ELSE Finish(p, [rec EXCEPT !.code = 400, !.exc = "HTTPException",
                                             !.message = "Failed to send OTP email"])
    /\ UNCHANGED <<users, cleanup_thread, settings, conversations, messages, rowlock, clock>>

NextLogin ==
    \/ \E p \in Procs, email \in {1, 4}, otp \in Otps, sent \in BOOLEAN :
          Login_RequestOtp(p, email, otp, sent)
    \/ \E p \in Procs, email \in {1, 4}, otp \in Otps : Verify_Get(p, email, otp)
    \/ \E p \in Procs : Verify_Check(p)
    \/ \E p \in Procs : Verify_Login(p)
    \/ AdvanceTime

SpecLogin == InitAgent /\ [][NextLogin]_vars

----------------------------------------------------------------------------
(* last_activity: its writers next to save_message *)

(* get_or_create_conversation with a conversation id, lines 126-134: the   *)
(* row is read without a lock and last_activity = datetime.utcnow() is set *)
(* on the object; the value is the time of this statement                  *)
Touch_Stamp(p, uid, cid) ==
    /\ CanStart(p)
    /\ validate_user_exists(uid) = 200
    /\ ConversationById(conversations, cid, uid) # {}
    /\ proc' = [proc EXCEPT ![p] =
                  [Idle EXCEPT !.pc = "touch", !.op = "resolve", !.user_id = uid,
                               !.conversation_id = cid, !.ts = clock]]
    /\ UNCHANGED <<users, otp_store, cleanup_thread, settings, conversations, messages, rowlock, clock>>

(* line 135: session.commit() sends the UPDATE with the value set at line  *)
(* 134; the UPDATE waits while another transaction holds the row           *)
Touch_Commit(p) ==
    /\ proc[p].pc = "touch"
    /\ LET cid == proc[p].conversation_id
       IN /\ RowFree(cid, p)
          /\ conversations' = [conversations EXCEPT ![cid].last_activity = proc[p].ts]
          /\ Finish(p, [proc[p] EXCEPT !.code = 200, !.conv = cid, !.writes = 1])
    /\ UNCHANGED <<users, otp_store, cleanup_thread, settings, messages, rowlock, clock>>

NextActivity ==
    \/ \E p \in Procs, c \in ConvIds : Save_Call(p, 1, c, "user", "hi")
    \/ \E p \in Procs : Save_Stamp(p)
    \/ \E p \in Procs : Save_Commit(p)
    \/ \E p \in Procs, c \in ConvIds : Touch_Stamp(p, 1, c)
    \/ \E p \in Procs : Touch_Commit(p)
    \/ Tick

SpecActivity == Init /\ [][NextActivity]_vars

----------------------------------------------------------------------------
(* Claims about the conversation resolver *)

ResolveOps == {"resolve", "chat", "new"}

(* C1: for every user, at most one conversation has status=active and is   *)
(* not soft-deleted, in every reachable state.                             *)
C1_SingleActiveConversation ==
    \A u \in UserIds :
        Cardinality({c \in DOMAIN conversations :
                        /\ conversations[c].user_id = u
                        /\ conversations[c].status = ACTIVE
                        /\ ~conversations[c].is_deleted}) <= 1

(* C7: get_or_create_conversation for a user id that names no user or a    *)
(* soft-deleted user fails with 404, creates no conversation and its chat  *)
(* request saves no message.                                               *)
C7_MissingUserIsNotFound ==
    \A p \in Procs :
        (/\ proc[p].pc = "done"
         /\ proc[p].op \in {"resolve", "chat"}
         /\ ~(proc[p].user_id \in DOMAIN users /\ ~users[proc[p].user_id].is_deleted))
        => (/\ proc[p].code = 404
            /\ proc[p].conv = NoId
            /\ proc[p].saved = 0
            /\ \A c \in DOMAIN conversations :
                   conversations[c].user_id # proc[p].user_id)

(* the step of worker p in which get_or_create_conversation returns a      *)
(* conversation found by its queries                                       *)
ReturnsFound(p) ==
    /\ proc'[p] # proc[p]
    /\ proc[p].pc \in {"idle", "newresolve"}
    /\ proc'[p].op \in ResolveOps
    /\ proc'[p].pc \in {"done", "settings"}
    /\ proc'[p].code = 200

(* the step in which it finds nothing and goes on to insert *)
GoesToInsert(p) == proc[p].pc # "insert" /\ proc'[p].pc = "insert"

(* the step in which it returns the row it inserted *)
ReturnsNew(p) == proc[p].pc = "insert" /\ proc'[p].pc # "insert"

IdNamesOwnLiveRow(tbl, cid, u) ==
    /\ cid # NoId
    /\ cid \in DOMAIN tbl
    /\ tbl[cid].user_id = u
    /\ ~tbl[cid].is_deleted

IsLiveActiveOf(tbl, c, u) ==
    /\ c \in DOMAIN tbl
    /\ tbl[c].user_id = u
    /\ tbl[c].status = ACTIVE
    /\ ~tbl[c].is_deleted

(* C8: get_or_create_conversation(user, cid) returns cid when cid names a  *)
(* live conversation of user; otherwise the user's live active             *)
(* conversation with the greatest last_activity when there is one;         *)
(* otherwise a new active conversation.  The conversation returned is      *)
(* never soft-deleted and never another user's.                            *)
C8_ResolveResult ==
    [][\A p \in Procs :
        LET u   == proc'[p].user_id
            cid == proc'[p].conversation_id
            r   == proc'[p].conv
        IN /\ ReturnsFound(p) =>
                /\ IF IdNamesOwnLiveRow(conversations, cid, u)
                   THEN r = cid
                   ELSE /\ IsLiveActiveOf(conversations, r, u)
                        /\ \A d \in DOMAIN conversations :
                              IsLiveActiveOf(conversations, d, u) =>
                                conversations[d].last_activity
                                    <= conversations[r].last_activity
                /\ conversations'[r].user_id = u
                /\ ~conversations'[r].is_deleted
           /\ GoesToInsert(p) =>
                /\ ~IdNamesOwnLiveRow(conversations, cid, u)
                /\ \A d \in DOMAIN conversations : ~IsLiveActiveOf(conversations, d, u)
           /\ ReturnsNew(p) =>
                /\ r \notin DOMAIN conversations
                /\ conversations' =
                      Append(conversations, ConversationRow(u, ACTIVE, FALSE, clock))
                /\ r = Len(conversations')
    ]_vars

(* C8 witness: a call that named a conversation it may not have (deleted   *)
(* or not its own) got the more recent of two active conversations         *)
C8_Witness ==
    \E p \in Procs :
        /\ proc[p].pc = "done" /\ proc[p].op = "resolve" /\ proc[p].code = 200
        /\ proc[p].conv # NoId
        /\ \E d \in DOMAIN conversations :
              /\ d # proc[p].conv
              /\ IsLiveActiveOf(conversations, d, proc[p].user_id)
              /\ IsLiveActiveOf(conversations, proc[p].conv, proc[p].user_id)
              /\ conversations[d].last_activity
                    < conversations[proc[p].conv].last_activity

(* C9 as stated: every successful get_or_create_conversation call has      *)
(* performed exactly one write transaction.                                *)
C9_ExactlyOneWrite ==
    \A p \in Procs :
        (proc[p].pc = "done" /\ proc[p].op = "resolve" /\ proc[p].code = 200)
        => proc[p].writes = 1

(* C9 amended: a successful call writes at most once: the bump of the      *)
(* returned row when the id was found, the insert when nothing was found,  *)
(* and nothing at all when the active conversation was found.              *)
C9_WritesPerPath ==
    [][\A p \in Procs :
        LET u   == proc'[p].user_id
            cid == proc'[p].conversation_id
        IN /\ (ReturnsFound(p) /\ IdNamesOwnLiveRow(conversations, cid, u)) =>
                /\ conversations' =
                      [conversations EXCEPT ![cid].last_activity = clock]
                /\ proc'[p].writes = 1
           /\ (ReturnsFound(p) /\ ~IdNamesOwnLiveRow(conversations, cid, u)) =>
                /\ conversations' = conversations
                /\ proc'[p].writes = 0
           /\ GoesToInsert(p) =>
                /\ conversations' = conversations
                /\ proc'[p].writes = 0
           /\ ReturnsNew(p) =>
                /\ Len(conversations') = Len(conversations) + 1
                /\ SubSeq(conversations', 1, Len(conversations)) = conversations
                /\ proc'[p].writes = 1
    ]_vars

(* C9 witness: a call answered from the active conversation, without a write *)
C9_Witness ==
    \E p \in Procs :
        /\ proc[p].pc = "done" /\ proc[p].op = "resolve" /\ proc[p].code = 200
        /\ proc[p].writes = 0
        /\ proc[p].conv # NoId

----------------------------------------------------------------------------
(* Claims about the message ledger and the chat turn *)

BlankTexts == {"", " "}

(* C2: the chat turn is never lost: a send_message call with a text that   *)
(* save_message accepts, on a conversation that is not soft-deleted, ends  *)
(* with the user message and one assistant message saved, the message      *)
(* count of the conversation raised by exactly 2.                          *)
C2_ChatTurnNeverLost ==
    \A p \in Procs :
        (/\ proc[p].pc = "done"
         /\ proc[p].op = "send"
         /\ proc[p].text \notin BlankTexts
         /\ LiveConversation(proc[p].conversation_id))
        => proc[p].saved = 2

(* C4: save_message called with an empty or whitespace-only message_text   *)
(* fails with 400 and changes neither the Messages table nor any           *)
(* last_activity, whatever the role and the conversation.                  *)
C4_BlankTextRejected ==
    [][\A p \in Procs :
         (/\ proc[p].pc = "idle"
          /\ proc'[p].op = "save"
          /\ proc'[p].text \in BlankTexts)
         => /\ proc'[p].pc = "done"
            /\ proc'[p].code = 400
            /\ proc'[p].saved = 0
            /\ messages' = messages
            /\ conversations' = conversations]_vars

C4_Witness ==
    \E p \in Procs :
        /\ proc[p].pc = "done" /\ proc[p].op = "save"
        /\ proc[p].text = " " /\ proc[p].role = "user"
        /\ LiveConversation(proc[p].conversation_id)
        /\ proc[p].code = 400

(* C5: in every conversation the messages, taken in commit order, have     *)
(* non-decreasing timestamps, under any interleaving of save_message calls *)
C5_TimestampsFollowCommitOrder ==
    \A i, j \in DOMAIN messages :
        (i < j /\ messages[i].conversation_id = messages[j].conversation_id)
        => messages[i].timestamp <= messages[j].timestamp

C5_Witness ==
    \E i, j \in DOMAIN messages :
        /\ i < j
        /\ messages[i].conversation_id = messages[j].conversation_id
        /\ messages[i].timestamp < messages[j].timestamp

(* C6: a chat request of an existing user goes through its steps in order  *)
(* (conversation resolved, user message committed, gateway called,         *)
(* assistant message committed) and then returns its result: when it has   *)
(* ended, both messages are committed and the result is a success.         *)
C6_ChatRequestStepsInOrder ==
    \A p \in Procs :
        (/\ proc[p].pc = "done"
         /\ proc[p].op = "chat"
         /\ UserFound(proc[p].user_id))
        => /\ proc[p].conv # NoId
           /\ proc[p].saved = 2
           /\ proc[p].code = 200

(* C10: save_message on a conversation_id that names no conversation, or a *)
(* soft-deleted one, fails with 404 and inserts no message row.            *)
C10_MissingConversationIsNotFound ==
    \A p \in Procs :
        (/\ proc[p].pc = "done"
         /\ proc[p].op = "save"
         /\ proc[p].text \notin BlankTexts
         /\ Upper(proc[p].role) \in MessageRoleNames
         /\ proc[p].conversation_id \notin DOMAIN conversations)
        => /\ proc[p].code = 404
           /\ proc[p].saved = 0

(* C3: when the inference call fails (connection error, other request      *)
(* error, undecodable JSON, body without a response field) the text that   *)
(* the chat turn returns and stores is one of the fixed fallback strings,  *)
(* never a text built from the details of the failure.                     *)
C3_FailureGivesFixedFallback ==
    \A p \in Procs :
        (/\ proc[p].pc = "done"
         /\ proc[p].op = "agent"
         /\ proc[p].outcome \in FailureKinds)
        => proc[p].response \in {FallbackConnecting, FallbackProcessing}

----------------------------------------------------------------------------
(* Claims about the chat turn under concurrent deletion *)

UserMessageStored(c, text) ==
    \E i \in DOMAIN messages :
        /\ messages[i].conversation_id = c
        /\ messages[i].role = "USER"
        /\ messages[i].message_text = text

----------------------------------------------------------------------------
(* Claims about the user settings *)

SettingsReadOps == {"get_settings", "api_settings", "chat"}

(* the step in which a settings read of worker p ends *)
EndsSettingsRead(p) ==
    /\ proc'[p].pc = "done"
    /\ proc'[p].op \in SettingsReadOps
    /\ proc[p].pc \in {"idle", "settings_insert", "api_settings_insert", "settings"}
    /\ proc[p].pc = "idle" => proc'[p].op # "chat"

IsDefaultSettings(row, u) ==
    /\ row.user_id = u
    /\ row.theme = "light"
    /\ row.notifications_enabled = TRUE
    /\ \E k \in DOMAIN available_models : row.preferred_model = available_models[k]

(* C12: on each of the three read paths, a settings read of an existing    *)
(* user returns a persisted row of that user; for a user without a row it  *)
(* is a new row with theme light, notifications enabled and a model of     *)
(* available_models, and for a user with a row the read creates nothing.   *)
C12_SettingsReadCreatesOnce ==
    [][\A p \in Procs :
        LET u == proc'[p].user_id
        IN (EndsSettingsRead(p) /\ UserFound(u)) =>
              /\ proc'[p].code = 200
              /\ proc'[p].setting \in DOMAIN settings'
              /\ settings'[proc'[p].setting].user_id = u
              /\ SettingsOf(u) = {} =>
                    IsDefaultSettings(settings'[proc'[p].setting], u)
              /\ SettingsOf(u) # {} => settings' = settings
    ]_vars

----------------------------------------------------------------------------
(* Claims about the prompt *)

Contains(s, part) ==
    \E i \in 1..(Len(s) - Len(part) + 1) : SubSeq(s, i, i + Len(part) - 1) = part

StoredLine(m) ==
    (IF m.role = "USER" THEN "User: " ELSE "Assistant: ") \o m.message_text

(* C13: the prompt of a POST /chat turn starts with the system preamble    *)
(* and holds, as User:/Assistant: lines, the earlier messages of the       *)
(* conversation of the turn (the last N of them, N = 20).                  *)
C13_PromptHoldsEarlierTurns ==
    \A p \in Procs :
        (proc[p].op = "turn" /\ proc[p].pc \in {"filter", "done"})
        => /\ StartsWith(proc[p].prompt, system_prompt)
           /\ \A i \in DOMAIN messages :
                 (/\ messages[i].conversation_id = proc[p].conversation_id
                  /\ i > Len(messages) - ContextLength)
                 => Contains(proc[p].prompt, StoredLine(messages[i]))

----------------------------------------------------------------------------
(* Claims about deleting users *)

(* the step that deletes user u *)
Deletes(u) == u \in DOMAIN users /\ u \notin DOMAIN users'

----------------------------------------------------------------------------
(* Claims about retries *)

(* C15: when a database operation of a unit of work (save_message,         *)
(* get_user_settings, get_conversation_messages) fails with a transient    *)
(* connection error, the caller gets the 500-class error only after the    *)
(* unit of work was retried the bounded number of times.                   *)
C15_TransientErrorIsRetried ==
    \A p \in Procs :
        (/\ proc[p].pc = "done"
         /\ proc[p].op \in UnitsOfWork
         /\ proc[p].outcome \in {"in_body", "around_body"}
         /\ proc[p].code = 500)
        => /\ proc[p].calls = MAX_RETRY_COUNT + 1
           /\ proc[p].retry_count = MAX_RETRY_COUNT

----------------------------------------------------------------------------
(* Claims about units of work *)

(* the step in which the save_message call of worker p ends *)
EndsSave(p) ==
    proc[p].pc # "done" /\ proc'[p].pc = "done" /\ proc'[p].op = "save"

(* C16: a unit of work ends in one of two ways: without exception and with *)
(* its writes committed, or with the exception re-raised and nothing of    *)
(* its uncommitted writes persisted; the session is closed (no row is      *)
(* held) either way.  save_message commits the message row and the         *)
(* last_activity update together or neither, and nothing of a unit of work *)
(* is visible before it ends.                                              *)
C16_CommitOrRollback ==
    [][\A p \in Procs :
        LET cid == proc'[p].conversation_id
        IN /\ (EndsSave(p) /\ proc'[p].exc = "") =>
                /\ proc'[p].code = 200
                /\ messages' = Append(messages,
                      MessageRow(cid, proc'[p].user_id, Upper(proc'[p].role),
                                 proc'[p].text, proc'[p].ts))
                /\ conversations' = [conversations EXCEPT ![cid].last_activity = clock]
           /\ (EndsSave(p) /\ proc'[p].exc # "") =>
                /\ proc'[p].code >= 400
                /\ messages' = messages
                /\ conversations' = conversations
           /\ EndsSave(p) => \A c \in ConvIds : rowlock'[c] # p
           /\ (proc'[p] # proc[p] /\ proc'[p].op = "save" /\ proc'[p].pc # "done") =>
                /\ messages' = messages
                /\ conversations' = conversations
    ]_vars

(* C16 witness: one call has committed its message, another one was rolled *)
(* back after it had built its message                                     *)
C16_Witness ==
    \E p, q \in Procs :
        /\ proc[p].pc = "done" /\ proc[p].op = "save" /\ proc[p].code = 200
        /\ proc[q].pc = "done" /\ proc[q].op = "save" /\ proc[q].code = 500
        /\ proc[q].ts > 0
        /\ Len(messages) = 1

----------------------------------------------------------------------------
(* Claims about one-time passwords *)

(* the step in which the POST /verify-otp request of worker p ends *)
EndsVerify(p) ==
    proc[p].pc # "done" /\ proc'[p].pc = "done" /\ proc'[p].op = "verify"

OtpFailures == {"Invalid OTP", "OTP expired", "OTP expired or not found"}

(* C17: a POST /verify-otp request with a wrong, expired or unknown OTP is *)
(* answered with a 401-class error, issues no access token and leaves the  *)
(* user's last_login as it was.                                            *)
C17_BadOtpIsUnauthorized ==
    [][\A p \in Procs :
        (EndsVerify(p) /\ proc'[p].message \in OtpFailures)
        => /\ proc'[p].code = 401
           /\ ~proc'[p].access_token
           /\ users' = users
    ]_vars

(* C18: two failed OTP verifications that differ only in the cause of the  *)
(* failure (wrong code, expired code, no code stored) return the same      *)
(* status and the same detail.                                             *)
C18_FailureCauseNotDisclosed ==
    \A p, q \in Procs :
        (/\ proc[p].pc = "done" /\ proc[p].op = "verify"
         /\ proc[q].pc = "done" /\ proc[q].op = "verify"
         /\ proc[p].message \in OtpFailures
         /\ proc[q].message \in OtpFailures)
        => /\ proc[p].code = proc[q].code
           /\ proc[p].detail = proc[q].detail

(* C19: a pass of the sweep removes exactly the entries of otp_store whose *)
(* expiry is earlier than the time the sweep read, and none whose expiry   *)
(* is not yet reached; every OTP expires OTP_EXPIRY_SECONDS after issue;   *)
(* verify_otp accepts a code only if it is the stored one and the current  *)
(* time is not past its expiry, whether or not a sweep ran in between.     *)
C19_SweepAndExpiry ==
    [][/\ (cleanup_thread.pc = "lock" /\ cleanup_thread'.pc = "sleep") =>
            /\ DOMAIN otp_store' =
                  {k \in DOMAIN otp_store :
                      ~(otp_store[k].expiry < cleanup_thread.current_time)}
            /\ \A k \in DOMAIN otp_store' : otp_store'[k] = otp_store[k]
            /\ \A k \in DOMAIN otp_store :
                  otp_store[k].expiry >= clock => k \in DOMAIN otp_store'
       /\ \A k \in DOMAIN otp_store' :
            (k \notin DOMAIN otp_store \/ otp_store'[k] # otp_store[k])
            => otp_store'[k].expiry = clock + OTP_EXPIRY_SECONDS
       /\ \A p \in Procs :
            (proc[p].pc = "check" /\ proc'[p].pc = "login")
            => /\ clock <= proc[p].stored_data.expiry
               /\ proc[p].otp = proc[p].stored_data.otp
               /\ proc[p].stored_data # NoData
    ]_vars

(* C19 witness: a sweep that read the time exactly at an entry's expiry    *)
(* has passed and left the entry, after a request had been accepted on an  *)
(* earlier code of the same store                                          *)
C19_Witness ==
    /\ cleanup_thread.pc = "sleep"
    /\ \E k \in DOMAIN otp_store : otp_store[k].expiry = cleanup_thread.current_time
    /\ \E p \in Procs :
          /\ proc[p].pc = "done" /\ proc[p].op = "verify" /\ proc[p].code = 200
          /\ proc[p].stored_data.expiry < cleanup_thread.current_time

----------------------------------------------------------------------------
(* Claims about the user reference of messages *)

(* C20: every message saved by a chat turn carries the user reference its  *)
(* caller gave to save_message: the sender's id for the user-role message, *)
(* null for the assistant-role message.                                    *)
C20_UserReferenceStored ==
    [][\A p \in Procs :
        (/\ proc[p].pc = "commit" /\ proc'[p].pc = "done"
         /\ Len(messages') = Len(messages) + 1)
        => LET m == messages'[Len(messages')]
           IN /\ m.user_id = proc'[p].arg_user_id
              /\ (m.role = "USER" => m.user_id = 1)
              /\ (m.role = "ASSISTANT" => m.user_id = NoId)
    ]_vars

----------------------------------------------------------------------------
(* Claims about last_activity *)

(* C21: for every conversation that is not soft-deleted, last_activity is  *)
(* at or after the timestamp of each of its messages.                      *)
C21_ActivityCoversMessages ==
    \A i \in DOMAIN messages :
        LET c == messages[i].conversation_id
        IN (c \in DOMAIN conversations /\ ~conversations[c].is_deleted)
           => conversations[c].last_activity >= messages[i].timestamp

(* the step in which worker p invokes the wrapped function *)
Invokes(p) == proc'[p].calls = proc[p].calls + 1

(* C22: the wrapped function is invoked at most max_retries + 1 times and  *)
(* the wrapper terminates; it returns with the first invocation that       *)
(* succeeds, re-raises the retryable exception of invocation               *)
(* max_retries + 1, and lets a non-retryable exception through at the      *)
(* invocation that raised it, with no sleep after it: a first invocation   *)
(* that raises one is the only invocation.                                 *)
C22_BoundedRetries ==
    /\ [](\A p \in Procs : proc[p].calls <= MAX_RETRY_COUNT + 1)
    /\ [][\A p \in Procs : Invokes(p) =>
            /\ proc'[p].calls = proc[p].retry_count + 1
            /\ proc'[p].outcome = "none" =>
                  (proc'[p].pc = "done" /\ proc'[p].code = 200)
            /\ proc'[p].exc = "HTTPException" =>
                  /\ proc'[p].pc = "done" /\ proc'[p].code = 500
                  /\ proc'[p].slept = proc[p].slept
                  /\ proc[p].calls = 0 => proc'[p].slept = 0
            /\ proc'[p].exc = "OperationalError" =>
                  IF proc'[p].calls = MAX_RETRY_COUNT + 1
                  THEN proc'[p].pc = "done" /\ proc'[p].code = 500
                  ELSE proc'[p].pc = "sleep"
       ]_vars
    /\ \A p \in Procs : (proc[p].pc \in {"sleep", "retry"}) ~> (proc[p].pc = "done")

(* C22 witness: one call gave up after max_retries + 1 invocations, another *)
(* one returned at its third invocation                                    *)
C22_Witness ==
    \E p, q \in Procs :
        /\ proc[p].pc = "done" /\ proc[p].exc = "OperationalError"
        /\ proc[p].calls = MAX_RETRY_COUNT + 1
        /\ proc[q].pc = "done" /\ proc[q].code = 200 /\ proc[q].calls = 3

(* the delays of the default arguments *)
DefaultDelays == <<1, 2, 4, 8, 16>>

RECURSIVE Pow(_, _)
Pow(b, e) == IF e = 0 THEN 1 ELSE b * Pow(b, e - 1)

(* min(initial_delay * backoff_factor^(k-1), max_delay) *)
CappedDelay(k) ==
    LET d == RETRY_INITIAL_DELAY_SECONDS * Pow(BackoffFactor, k - 1)
    IN IF d <= MAX_RETRY_DELAY_SECONDS THEN d ELSE MAX_RETRY_DELAY_SECONDS

(* C23: the sleep before retry k is min(initial_delay *                    *)
(* backoff_factor^(k-1), max_delay): 1, 2, 4, 8, 16 seconds with the       *)
(* defaults; the delays never decrease and none exceeds max_delay.         *)
C23_BackoffDelays ==
    [][\A p \in Procs :
        (proc[p].pc = "sleep" /\ proc'[p].pc = "retry") =>
            LET k == proc'[p].retry_count
                d == proc'[p].slept - proc[p].slept
            IN /\ k \in 1..MAX_RETRY_COUNT
               /\ d = CappedDelay(k)
               /\ d = DefaultDelays[k]
               /\ d <= MAX_RETRY_DELAY_SECONDS
               /\ (k > 1 => d >= CappedDelay(k - 1))
    ]_vars

(* C23 witness: a call that slept before each of its five retries *)
C23_Witness ==
    \E p \in Procs :
        /\ proc[p].pc = "done"
        /\ proc[p].retry_count = MAX_RETRY_COUNT
        /\ proc[p].slept = 1 + 2 + 4 + 8 + 16

(* the POST /verify-otp request of worker p has logged its user in *)
VerifySucceeded(p) ==
    proc[p].pc = "done" /\ proc[p].op = "verify" /\ proc[p].code = 200

(* C24: an issued OTP is single-use: with one OTP issued, at most one      *)
(* verification succeeds, also when two run concurrently.                  *)
C24_OtpIsSingleUse ==
    Cardinality({p \in Procs : VerifySucceeded(p)}) <= 1

(* C25: once a newer OTP is stored for an address, the older one no longer *)
(* makes a verification succeed: a verification is accepted only on the    *)
(* entry the store holds at that moment, and it removes from the store     *)
(* only the entry it has read.                                             *)
C25_NewerOtpReplacesOlder ==
    [][\A p \in Procs :
        (proc[p].pc = "check" /\ proc'[p].pc \in {"login", "done"}) =>
            /\ proc'[p].pc = "login" =>
                  OtpGet(proc[p].email) = proc[p].stored_data
            /\ (proc[p].email \in DOMAIN otp_store
                /\ proc[p].email \notin DOMAIN otp_store') =>
                  otp_store[proc[p].email] = proc[p].stored_data
    ]_vars

(* C26: a POST /login that reports failure (address not registered, or the *)
(* mail could not be sent) leaves otp_store as it was.                     *)
C26_FailedSendStoresNothing ==
    [][\A p \in Procs :
        (/\ proc[p].pc = "idle" /\ proc'[p].pc = "done"
         /\ proc'[p].op = "login" /\ proc'[p].code # 200)
        => otp_store' = otp_store
    ]_vars

(* C27: at most one User_Settings row exists per user, also when two       *)
(* requests for a user without a row run concurrently.                     *)
C27_OneSettingsRowPerUser ==
    \A u \in UserIds : Cardinality(SettingsOf(u)) <= 1

----------------------------------------------------------------------------
(* Claims about the history of a conversation *)

(* the messages of conversation c in the order of the table, which is the  *)
(* order of their timestamps (C5)                                          *)
History(c) ==
    LET Of(m) == m.conversation_id = c
    IN SelectSeq(messages, Of)

Alternates(h) ==
    \A i \in DOMAIN h : h[i].role = IF i % 2 = 1 THEN "USER" ELSE "ASSISTANT"

(* the user message of the turn of worker p is in the history of its       *)
(* conversation and the message after it is an assistant message           *)
TurnStored(p) ==
    LET h == History(proc[p].conversation_id)
    IN \E i \in DOMAIN h :
          /\ h[i].role = "USER" /\ h[i].message_text = proc[p].text
          /\ i + 1 \in DOMAIN h
          /\ h[i + 1].role = "ASSISTANT"

----------------------------------------------------------------------------
(* Claims about ownership *)

(* the operations of requests made for an authenticated user *)
RequestOps == {"archive", "switch", "new", "resolve", "send"}

(* the user a request acts for *)
Requester(rec) == IF rec.op = "send" THEN rec.arg_user_id ELSE rec.user_id

----------------------------------------------------------------------------
(* Claims about the status of a conversation *)

(* C30: archived is absorbing: no step sets the status of an archived      *)
(* conversation back to active, and a soft-deleted conversation is         *)
(* archived.                                                               *)
C30_ArchivedIsAbsorbing ==
    /\ [](\A c \in DOMAIN conversations :
            conversations[c].is_deleted => conversations[c].status = ARCHIVED)
    /\ [][\A c \in DOMAIN conversations :
            conversations[c].status = ARCHIVED
            => (c \in DOMAIN conversations' /\ conversations'[c].status = ARCHIVED)
       ]_vars

(* C30 witness: a conversation was resolved by its id and switched to by   *)
(* its owner, and was soft-deleted afterwards: it is archived              *)
C30_Witness ==
    \E p, q \in Procs, c \in DOMAIN conversations :
        /\ conversations[c].is_deleted /\ conversations[c].status = ARCHIVED
        /\ proc[p].pc = "done" /\ proc[p].op = "resolve"
        /\ proc[p].conversation_id = c /\ proc[p].conv = c
        /\ proc[q].pc = "done" /\ proc[q].op = "switch"
        /\ proc[q].conv = c /\ proc[q].code = 200

====
